---- MODULE Spec2Model ----
(***************************************************************************)
(* Model of findmy/http.py: the HttpSession manager (one lazily created    *)
(* aiohttp ClientSession per manager, closed on close() or, best effort,   *)
(* on __del__) and the HttpResponse value with its decoders.               *)
(*                                                                         *)
(* Coroutines run on one event loop: a step of the model is the code a     *)
(* coroutine runs between two suspension points (an await that reaches     *)
(* the transport), so every interleaving of the steps is a schedule the    *)
(* loop can produce.                                                       *)
(***************************************************************************)
EXTENDS Integers, Sequences, FiniteSets, TLC

\* ------------------------------------------------------------- bounds
NumProcs == 2       \* caller coroutines that use the manager
MaxSessions == 3    \* ClientSession objects the manager may create in a run
MaxStatus == 2000   \* status codes range over -MaxStatus..MaxStatus
MaxLen == 3         \* longest response body, in byte chunks

\* ---------------------------------------------------------- constants
None == 0           \* the value of self._session when there is no session

Procs == 1..NumProcs
DelTask == 0        \* the task __del__ schedules through loop.create_task
Coros == Procs \cup {DelTask}
Sessions == 1..MaxSessions

VARIABLES
    session,     \* self._session: None or the ClientSession it refers to
    created,     \* number of ClientSession objects constructed so far
    sstate,      \* each ClientSession: "absent", "open", "closing", "closed"
    closeCalls,  \* each ClientSession: calls of its close() so far
    pc,          \* each coroutine: where it is suspended
    on,          \* each coroutine: the session whose transport it awaits
    attempts,    \* each coroutine: calls of ClientSession.request in this request()
    teardown,    \* "alive", or what __del__ did
    overlapped,  \* history: some operation started while another was suspended
    resp,        \* the HttpResponse last returned (NoResp before the first)
    last         \* history: the operation that ended last, its input and outcome

vars == <<session, created, sstate, closeCalls, pc, on, attempts, teardown,
          overlapped, resp, last>>

mgr == <<session, created, sstate, closeCalls, pc, on, attempts, teardown, overlapped>>

NoResp == [status |-> 0, content |-> <<>>, made |-> FALSE]

\* An ended operation: its name, its input (arg, num, flag or bytes, whichever it
\* has), whether it raised, and what it returned or raised (val; chars for a str).
\* A decoded plist value: its Python type and, for a list, its items.
Value(kind, items) == [kind |-> kind, items |-> items]
NoneValue == Value("NoneType", <<>>)

Ev(op) ==
    [op |-> op, arg |-> "", num |-> 0, flag |-> FALSE, bytes |-> <<>>,
     raised |-> FALSE, val |-> "None", chars |-> <<>>, value |-> NoneValue]

\* ------------------------------------------------- HttpResponse (pure)
\* Response bodies are sequences of byte chunks. A chunk is one ASCII character
\* of a JSON text, the three bytes of the string literal "a" taken together,
\* or one byte of the two-byte UTF-8 encoding of U+00E9 (0xC3 0xA9).
ByteChunks == {"{", "}", "[", "]", ":", ",", "1", " ", "\"a\"", "0xC3", "0xA9"}

SeqsUpTo(S, n) == UNION {[1..k -> S] : k \in 0..n}

\* Bodies longer than MaxLen that reach the member and element loops of the decoder.
SampleBodies ==
    { <<"{", "\"a\"", ":", "1", "}">>,
      <<"{", "\"a\"", ":", "1", ",", "\"a\"", ":", "[", "]", "}">>,
      <<"[", "1", ",", "{", "}", "]">>,
      <<"[", "1", ",", "]">>,
      <<" ", "[", " ", "\"a\"", " ", "]", " ">>,
      <<"{", "\"a\"", ":", "0xC3", "0xA9", "}">> }

Bodies == SeqsUpTo(ByteChunks, MaxLen) \cup SampleBodies

StatusCodes == (0 - MaxStatus)..MaxStatus

Returned(v) == [raised |-> FALSE, val |-> v]
Raised(e) == [raised |-> TRUE, val |-> e]

\* HttpResponse.__init__
HttpResponse(status_code, content) ==
    [status |-> status_code, content |-> content, made |-> TRUE]

\* str(int): the decimal digits, most significant first, after "-" when negative.
DigitChar == <<"0", "1", "2", "3", "4", "5", "6", "7", "8", "9">>

RECURSIVE NatStr(_)
NatStr(n) ==
    IF n < 10 THEN <<DigitChar[n + 1]>>
    ELSE Append(NatStr(n \div 10), DigitChar[(n % 10) + 1])

Str(n) == IF n < 0 THEN <<"-">> \o NatStr(0 - n) ELSE NatStr(n)

\* str.startswith
StartsWith(s, prefix) ==
    /\ Len(prefix) <= Len(s)
    /\ SubSeq(s, 1, Len(prefix)) = prefix

\* HttpResponse.ok
ok(r) == StartsWith(Str(r.status), <<"2">>)

\* bytes.decode("utf-8"): a lead byte 0xC3 needs the continuation byte after it,
\* a continuation byte on its own is invalid, every other chunk is ASCII.
RECURSIVE Utf8Decode(_)
Utf8Decode(b) ==
    IF b = <<>> THEN Returned(<<>>)
    ELSE IF Head(b) = "0xC3" THEN
        IF Len(b) >= 2 /\ b[2] = "0xA9" THEN
            LET rest == Utf8Decode(SubSeq(b, 3, Len(b)))
            IN  IF rest.raised THEN rest ELSE Returned(<<"U+00E9">> \o rest.val)
        ELSE Raised("UnicodeDecodeError")
    ELSE IF Head(b) = "0xA9" THEN Raised("UnicodeDecodeError")
    ELSE LET rest == Utf8Decode(Tail(b))
         IN  IF rest.raised THEN rest ELSE Returned(<<Head(b)>> \o rest.val)

\* HttpResponse.text
text(r) == Utf8Decode(r.content)

\* json.loads on a str: the JSON grammar over the chunks above.
RECURSIVE SkipWs(_, _)
SkipWs(s, i) == IF i <= Len(s) /\ s[i] = " " THEN SkipWs(s, i + 1) ELSE i

RECURSIVE SkipDigits(_, _)
SkipDigits(s, i) == IF i <= Len(s) /\ s[i] = "1" THEN SkipDigits(s, i + 1) ELSE i

ParseFail == [ok |-> FALSE, kind |-> "", next |-> 0]
Parsed(kind, next) == [ok |-> TRUE, kind |-> kind, next |-> next]

At(s, i, c) == i <= Len(s) /\ s[i] = c

RECURSIVE ParseValue(_, _), ParseElems(_, _), ParseMembers(_, _)
ParseValue(s, i) ==
    IF i > Len(s) THEN ParseFail
    ELSE IF s[i] = "\"a\"" THEN Parsed("str", i + 1)
    ELSE IF s[i] = "1" THEN Parsed("int", SkipDigits(s, i))
    ELSE IF s[i] = "[" THEN
        LET j == SkipWs(s, i + 1)
        IN  IF At(s, j, "]") THEN Parsed("list", j + 1) ELSE ParseElems(s, j)
    ELSE IF s[i] = "{" THEN
        LET j == SkipWs(s, i + 1)
        IN  IF At(s, j, "}") THEN Parsed("dict", j + 1) ELSE ParseMembers(s, j)
    ELSE ParseFail

ParseElems(s, i) ==
    LET v == ParseValue(s, i)
    IN  IF ~v.ok THEN ParseFail
        ELSE LET j == SkipWs(s, v.next)
             IN  IF At(s, j, ",") THEN ParseElems(s, SkipWs(s, j + 1))
                 ELSE IF At(s, j, "]") THEN Parsed("list", j + 1)
                 ELSE ParseFail

ParseMembers(s, i) ==
    IF ~At(s, i, "\"a\"") THEN ParseFail
    ELSE LET j == SkipWs(s, i + 1)
         IN  IF ~At(s, j, ":") THEN ParseFail
             ELSE LET v == ParseValue(s, SkipWs(s, j + 1))
                  IN  IF ~v.ok THEN ParseFail
                      ELSE LET m == SkipWs(s, v.next)
                           IN  IF At(s, m, ",") THEN ParseMembers(s, SkipWs(s, m + 1))
                               ELSE IF At(s, m, "}") THEN Parsed("dict", m + 1)
                               ELSE ParseFail

JsonLoads(s) ==
    LET v == ParseValue(s, SkipWs(s, 1))
    IN  IF ~v.ok THEN Raised("JSONDecodeError")
        ELSE IF SkipWs(s, v.next) # Len(s) + 1 THEN Raised("JSONDecodeError")
        ELSE Returned(v.kind)

\* HttpResponse.json
json(r) ==
    LET t == text(r)
    IN  IF t.raised THEN t ELSE JsonLoads(t.val)


\* ------------------------------------------------ decode_plist (pure)
\* The chunks of an XML property list: the XML declaration, a processing
\* instruction whose bytes begin with "<?xml" too, the DOCTYPE, tags, the empty
\* elements <dict/> and <array/>, a whole <string> element, and white space.
XmlDecl == "<?xml version='1.0' encoding='UTF-8'?>"
XmlStylesheet == "<?xml-stylesheet?>"
DocType == "<!DOCTYPE plist PUBLIC '-//Apple//DTD PLIST 1.0//EN' 'http://www.apple.com/DTDs/PropertyList-1.0.dtd'>"

PlistChunks ==
    {XmlDecl, XmlStylesheet, DocType, "<plist>", "</plist>", "<array>", "</array>",
     "<dict/>", "<array/>", "<string>s</string>", " "}

\* Documents longer than MaxLen: with the header, an array at the top, nesting,
\* a second DOCTYPE, and text that is no property list.
SamplePlists ==
    { <<XmlDecl, DocType, "<plist>", "<dict/>", "</plist>">>,
      <<XmlDecl, DocType, "<plist>", "<array/>", "</plist>">>,
      <<XmlDecl, DocType, "<plist>", "<array>", "<dict/>", "</array>", "</plist>">>,
      <<"<plist>", "<array>", "<array>", "<string>s</string>", "</array>", "<dict/>",
        "</array>", "</plist>">>,
      <<"<plist>", " ", "<dict/>", " ", "</plist>", " ">>,
      <<DocType, "<plist>", "<dict/>", "</plist>">>,
      <<" ", XmlDecl, "<plist>", "<dict/>", "</plist>">>,
      <<XmlStylesheet, "<plist>", "<dict/>", "</plist>">>,
      <<"<plist>", "{", "<dict/>", "}", "</plist>">>,
      <<"<plist>", "0xC3", "0xA9", "<dict/>", "</plist>">>,
      <<"<plist>", "0xC3", "<dict/>", "</plist>">>,
      <<"{", "}">> }

PlistBodies == SeqsUpTo(PlistChunks, MaxLen) \cup SamplePlists

\* decode_plist, lines 17-20
plist_header == <<XmlDecl, DocType>>

\* bytes.startswith(b"<?xml"): the chunks whose first five bytes are "<?xml"
BeginsXml(chunk) == chunk \in {XmlDecl, XmlStylesheet}

StartsWithXml(data) == Len(data) >= 1 /\ BeginsXml(data[1])

PlistReturned(v) == [raised |-> FALSE, err |-> "", value |-> v]
PlistRaised(e) == [raised |-> TRUE, err |-> e, value |-> NoneValue]

\* _PlistParser.add_object: the root when no array is open (a later one
\* replaces an earlier one), else an item of the innermost open array.
AddObject(st, v) ==
    IF st.vals = <<>> THEN [st EXCEPT !.root = v]
    ELSE [st EXCEPT !.vals[Len(st.vals)] = Append(@, v)]

\* The document element has ended when no tag is open any more.
Ended(st) == [st EXCEPT !.started = TRUE, !.done = (st.open = <<>>)]

ParserStart ==
    [open |-> <<>>, vals |-> <<>>, root |-> NoneValue, doctype |-> FALSE,
     started |-> FALSE, done |-> FALSE]

\* plistlib.loads on data that begins with "<?xml": the XML parser (expat) with
\* the handlers of _PlistParser. <plist> has no handler; text between elements
\* is dropped; text outside the document element, a misplaced declaration or
\* DOCTYPE, a second document element, a wrong or missing end tag and invalid
\* UTF-8 are errors of the XML parser.
RECURSIVE PlistScan(_, _, _)
PlistScan(d, i, st) ==
    IF i > Len(d) THEN
        IF st.open # <<>> \/ ~st.started THEN PlistRaised("ExpatError")
        ELSE PlistReturned(st.root)
    ELSE LET c == d[i] IN
    IF c = XmlDecl THEN
        IF i = 1 THEN PlistScan(d, i + 1, st) ELSE PlistRaised("ExpatError")
    ELSE IF c \in {XmlStylesheet, " "} THEN PlistScan(d, i + 1, st)
    ELSE IF c = DocType THEN
        IF st.doctype \/ st.started THEN PlistRaised("ExpatError")
        ELSE PlistScan(d, i + 1, [st EXCEPT !.doctype = TRUE])
    ELSE IF c \in {"<plist>", "<array>"} THEN
        IF st.done THEN PlistRaised("ExpatError")
        ELSE PlistScan(d, i + 1,
                 [st EXCEPT !.started = TRUE,
                            !.open = Append(@, c),
                            !.vals = IF c = "<array>" THEN Append(@, <<>>) ELSE @])
    ELSE IF c = "</plist>" THEN
        IF st.open = <<>> \/ st.open[Len(st.open)] # "<plist>" THEN PlistRaised("ExpatError")
        ELSE PlistScan(d, i + 1,
                 Ended([st EXCEPT !.open = SubSeq(@, 1, Len(@) - 1)]))
    ELSE IF c = "</array>" THEN
        IF st.open = <<>> \/ st.open[Len(st.open)] # "<array>" THEN PlistRaised("ExpatError")
        ELSE LET items == st.vals[Len(st.vals)]
                 popped == [st EXCEPT !.open = SubSeq(@, 1, Len(@) - 1),
                                      !.vals = SubSeq(@, 1, Len(@) - 1)]
             IN  PlistScan(d, i + 1, Ended(AddObject(popped, Value("list", items))))
    ELSE IF c \in {"<dict/>", "<array/>", "<string>s</string>"} THEN
        IF st.done THEN PlistRaised("ExpatError")
        ELSE LET v == IF c = "<dict/>" THEN Value("dict", <<>>)
                      ELSE IF c = "<array/>" THEN Value("list", <<>>)
                      ELSE Value("str", <<>>)
             IN  PlistScan(d, i + 1, Ended(AddObject(st, v)))
    ELSE IF c = "0xC3" THEN
        IF At(d, i + 1, "0xA9") /\ st.open # <<>> THEN PlistScan(d, i + 2, st)
        ELSE PlistRaised("ExpatError")
    ELSE IF c = "0xA9" THEN PlistRaised("ExpatError")
    ELSE IF st.open = <<>> THEN PlistRaised("ExpatError")
    ELSE PlistScan(d, i + 1, st)

\* plistlib.loads, the format being found from the first bytes: an XML
\* declaration or "<plist" selects the XML parser, anything else is refused.
PlistLoads(data) ==
    IF StartsWithXml(data) \/ At(data, 1, "<plist>") THEN PlistScan(data, 1, ParserStart)
    ELSE PlistRaised("InvalidFileException")

\* As decode_plist, were the header put in front of every body.
decode_plist_always_header(data) == PlistLoads(plist_header \o data)

\* decode_plist
decode_plist(data) ==
    IF ~StartsWithXml(data) THEN PlistLoads(plist_header \o data)
    ELSE PlistLoads(data)

\* As IsDict, were the test of line 57 left out.
AnyType(v) == TRUE

\* isinstance(data, dict)
IsDict(v) == v.kind = "dict"

\* HttpResponse.plist
plist(r) ==
    LET data == decode_plist(r.content)
    IN  IF data.raised THEN data
        ELSE IF ~IsDict(data.value) THEN PlistRaised("TypeError")
        ELSE PlistReturned(data.value)

\* ------------------------------------------------------- HttpSession
Idle(c) == pc[c] = "idle"
Quiet == \A c \in Coros : pc[c] \in {"idle", "none", "done"}
Suspended(c) == pc[c] \in {"req_send", "req_read", "close_wait"}

\* HttpSession.__init__, and a response wrapper not yet made
Init ==
    /\ session = None
    /\ created = 0
    /\ sstate = [s \in Sessions |-> "absent"]
    /\ closeCalls = [s \in Sessions |-> 0]
    /\ pc = [c \in Coros |-> IF c = DelTask THEN "none" ELSE "idle"]
    /\ on = [c \in Coros |-> None]
    /\ attempts = [c \in Coros |-> 0]
    /\ teardown = "alive"
    /\ overlapped = FALSE
    /\ resp = NoResp
    /\ last = Ev("__init__")

\* As NeedsSession, were the test of line 71 left out.
AlwaysNeedsSession(h) == TRUE

\* _ensure_session, the test of line 71
NeedsSession(h) == h = None

\* As EnsureSession, were a session constructed on every call.
EnsureFreshSession(h, n) == n + 1

\* _ensure_session: the handle it leaves, the ClientSession it constructs being
\* number created + 1. It has no await in it: it runs in the step that calls it.
EnsureSession(h, n) == IF NeedsSession(h) THEN n + 1 ELSE h

\* As HasSession, were the test of line 77 inverted.
HasNoSession(h) == h = None

\* close, the test of line 77
HasSession(h) == h # None

\* As HandleAfterClose, were line 80 left out.
HandleKeptAfterClose(h) == h

\* close, line 80: the handle after the transport's close has been awaited
HandleAfterClose(h) == None

\* As HandleAfterError, were the session dropped when the transport fails.
HandleDroppedAfterError(h) == None

\* request: no except clause surrounds the transport call, the handle is not touched
HandleAfterError(h) == h

\* As RetriesAfterError, were a failed call made a second time.
RetriesOnce(n) == n < 2

\* request: whether a failed transport call is made again (there is no loop around it)
RetriesAfterError(n) == FALSE

\* ClientSession.close() on session s: the transport starts closing
TransportClosing(st, s) == [st EXCEPT ![s] = IF @ = "open" THEN "closing" ELSE @]

\* request(), get(), post(): lines 107-113 up to the first suspension. The session
\* is ensured, then self._session.request(...) is called on the handle and awaited.
RequestCall(p) ==
    /\ teardown = "alive"
    /\ Idle(p)
    /\ LET h == EnsureSession(session, created)
       IN  /\ h \in Sessions
           /\ session' = h
           /\ created' = IF h = session THEN created ELSE created + 1
           /\ sstate' = IF h = session THEN sstate ELSE [sstate EXCEPT ![h] = "open"]
           /\ on' = [on EXCEPT ![p] = h]
    /\ attempts' = [attempts EXCEPT ![p] = 1]
    /\ pc' = [pc EXCEPT ![p] = "req_send"]
    /\ overlapped' = (overlapped \/ \E c \in Coros : Suspended(c))
    /\ UNCHANGED <<closeCalls, teardown, resp, last>>

\* request(): the transport answered with the status line and headers (line 113
\* resumes); the body is read next (line 120 suspends). A closed session answers nothing.
RequestSent(p) ==
    /\ pc[p] = "req_send"
    /\ sstate[on[p]] # "closed"
    /\ pc' = [pc EXCEPT ![p] = "req_read"]
    /\ UNCHANGED <<session, created, sstate, closeCalls, on, attempts, teardown,
                   overlapped, resp, last>>

\* request(): the body is read, HttpResponse(r.status, body) is returned (line 120)
RequestRead(p, status_code, content) ==
    /\ pc[p] = "req_read"
    /\ sstate[on[p]] # "closed"
    /\ pc' = [pc EXCEPT ![p] = "idle"]
    /\ on' = [on EXCEPT ![p] = None]
    /\ attempts' = [attempts EXCEPT ![p] = 0]
    /\ resp' = HttpResponse(status_code, content)
    /\ last' = [Ev("request") EXCEPT !.val = "HttpResponse"]
    /\ UNCHANGED <<session, created, sstate, closeCalls, teardown, overlapped>>

\* request(): the transport raises while the request or the body read is awaited
\* (connection failure, timeout, closed session); the error leaves request().
RequestFail(p) ==
    /\ pc[p] \in {"req_send", "req_read"}
    /\ session' = HandleAfterError(session)
    /\ IF RetriesAfterError(attempts[p])
       THEN /\ attempts' = [attempts EXCEPT ![p] = @ + 1]
            /\ pc' = [pc EXCEPT ![p] = "req_send"]
            /\ UNCHANGED <<on, last>>
       ELSE /\ attempts' = [attempts EXCEPT ![p] = 0]
            /\ pc' = [pc EXCEPT ![p] = "idle"]
            /\ on' = [on EXCEPT ![p] = None]
            /\ last' = [Ev("request") EXCEPT !.num = attempts[p], !.raised = TRUE,
                                              !.val = "TransportError"]
    /\ UNCHANGED <<created, sstate, closeCalls, teardown, overlapped, resp>>

\* Whether coroutine c may start running close(): a caller of a live manager, or
\* the task __del__ scheduled.
MayClose(c) ==
    IF c = DelTask THEN pc[c] = "scheduled" ELSE (teardown = "alive" /\ Idle(c))

Finished(c) == IF c = DelTask THEN "done" ELSE "idle"

\* close(), lines 77-79: with no session it returns; with one it calls the
\* session's close() and suspends on it.
CloseCall(c) ==
    /\ MayClose(c)
    /\ IF HasSession(session)
       THEN /\ session \in Sessions
            /\ closeCalls' = [closeCalls EXCEPT ![session] = @ + 1]
            /\ sstate' = TransportClosing(sstate, session)
            /\ on' = [on EXCEPT ![c] = session]
            /\ pc' = [pc EXCEPT ![c] = "close_wait"]
            /\ overlapped' = (overlapped \/ \E d \in Coros : Suspended(d))
            /\ UNCHANGED last
       ELSE /\ pc' = [pc EXCEPT ![c] = Finished(c)]
            /\ last' = [Ev("close") EXCEPT !.arg = "no session"]
            /\ UNCHANGED <<closeCalls, sstate, on, overlapped>>
    /\ UNCHANGED <<session, created, attempts, teardown, resp>>

\* close(), line 80: the awaited close of the transport is over, the handle is reset
CloseDone(c) ==
    /\ pc[c] = "close_wait"
    /\ sstate' = [sstate EXCEPT ![on[c]] = "closed"]
    /\ session' = HandleAfterClose(session)
    /\ pc' = [pc EXCEPT ![c] = Finished(c)]
    /\ on' = [on EXCEPT ![c] = None]
    /\ last' = [Ev("close") EXCEPT !.arg = "closed"]
    /\ UNCHANGED <<created, closeCalls, attempts, teardown, overlapped, resp>>

\* As SchedulesClose, were the task created whether or not a loop is running.
SchedulesCloseWithoutLoop(h, loop) == h # None

\* __del__, line 87 and lines 90-92: whether a close() task is handed to the loop
SchedulesClose(h, loop) == h # None /\ loop

\* __del__: the manager is collected, so no coroutine of it is alive. loop tells
\* whether asyncio.get_running_loop() finds a loop; its RuntimeError is caught.
Del(loop) ==
    /\ teardown = "alive"
    /\ \A p \in Procs : Idle(p)
    /\ teardown' = IF session = None THEN "nothing"
                   ELSE IF SchedulesClose(session, loop) THEN "scheduled" ELSE "skipped"
    /\ pc' = [pc EXCEPT ![DelTask] =
                 IF SchedulesClose(session, loop) THEN "scheduled" ELSE @]
    /\ last' = [Ev("__del__") EXCEPT !.flag = loop]
    /\ UNCHANGED <<session, created, sstate, closeCalls, on, attempts, overlapped, resp>>

\* ------------------------------------------- HttpResponse (operations)
Ok ==
    /\ resp.made
    /\ last' = [Ev("ok") EXCEPT !.num = resp.status, !.val = "bool", !.flag = ok(resp)]
    /\ UNCHANGED <<mgr, resp>>

Text ==
    /\ resp.made
    /\ LET r == text(resp)
       IN  last' = IF r.raised
                   THEN [Ev("text") EXCEPT !.bytes = resp.content, !.raised = TRUE, !.val = r.val]
                   ELSE [Ev("text") EXCEPT !.bytes = resp.content, !.val = "str", !.chars = r.val]
    /\ UNCHANGED <<mgr, resp>>

Json ==
    /\ resp.made
    /\ LET r == json(resp)
       IN  last' = [Ev("json") EXCEPT !.bytes = resp.content, !.raised = r.raised, !.val = r.val]
    /\ UNCHANGED <<mgr, resp>>

Plist ==
    /\ resp.made
    /\ LET r == plist(resp)
       IN  last' = [Ev("plist") EXCEPT !.bytes = resp.content, !.raised = r.raised,
                                       !.val = IF r.raised THEN r.err ELSE r.value.kind,
                                       !.value = r.value]
    /\ UNCHANGED <<mgr, resp>>

\* decode_plist applied to the bytes of the response
DecodePlist ==
    /\ resp.made
    /\ LET r == decode_plist(resp.content)
       IN  last' = [Ev("decode_plist") EXCEPT !.bytes = resp.content, !.raised = r.raised,
                                              !.val = IF r.raised THEN r.err ELSE r.value.kind,
                                              !.value = r.value]
    /\ UNCHANGED <<mgr, resp>>

\* ------------------------------------------------------ specifications
\* What the transport answers in the runs of the manager.
WireStatus == {200, 404}
WireBodies == { <<"{", "}">>, <<"[", "]">> }

Next ==
    \/ \E p \in Procs : RequestCall(p)
    \/ \E p \in Procs : RequestSent(p)
    \/ \E p \in Procs : \E st \in WireStatus : \E b \in WireBodies : RequestRead(p, st, b)
    \/ \E p \in Procs : RequestFail(p)
    \/ \E c \in Coros : CloseCall(c)
    \/ \E c \in Coros : CloseDone(c)
    \/ \E loop \in BOOLEAN : Del(loop)
    \/ Ok
    \/ Text
    \/ Json
    \/ Plist
    \/ DecodePlist

Spec == Init /\ [][Next]_vars

\* The response wrapper on its own: any status code with any body of the bounded sets.
InitResponse ==
    /\ session = None
    /\ created = 0
    /\ sstate = [s \in Sessions |-> "absent"]
    /\ closeCalls = [s \in Sessions |-> 0]
    /\ pc = [c \in Coros |-> IF c = DelTask THEN "none" ELSE "idle"]
    /\ on = [c \in Coros |-> None]
    /\ attempts = [c \in Coros |-> 0]
    /\ teardown = "alive"
    /\ overlapped = FALSE
    /\ \/ \E st \in StatusCodes : resp = HttpResponse(st, <<>>)
       \/ \E b \in Bodies \cup PlistBodies : resp = HttpResponse(200, b)
    /\ last = Ev("__init__")

NextResponse == Ok \/ Text \/ Json \/ Plist \/ DecodePlist

SpecResponse == InitResponse /\ [][NextResponse]_vars

\* One request whose body is being read, answered with any body of the bounded
\* sets, and the decoding of the response it returns.
InitAwaitingBody ==
    /\ session = 1
    /\ created = 1
    /\ sstate = [s \in Sessions |-> IF s = 1 THEN "open" ELSE "absent"]
    /\ closeCalls = [s \in Sessions |-> 0]
    /\ pc = [c \in Coros |-> IF c = DelTask THEN "none"
                              ELSE IF c = 1 THEN "req_read" ELSE "idle"]
    /\ on = [c \in Coros |-> IF c = 1 THEN 1 ELSE None]
    /\ attempts = [c \in Coros |-> IF c = 1 THEN 1 ELSE 0]
    /\ teardown = "alive"
    /\ overlapped = FALSE
    /\ resp = NoResp
    /\ last = Ev("__init__")

NextWire ==
    \/ /\ pc[1] = "req_read"
       /\ \E b \in Bodies \cup PlistBodies : RequestRead(1, 200, b)
    \/ RequestFail(1)
    \/ Plist
    \/ DecodePlist

SpecWire == InitAwaitingBody /\ [][NextWire]_vars

\* ---------------------------------------------------------- properties
Live(s) == sstate[s] \in {"open", "closing"}
InRequest(p) == pc[p] \in {"req_send", "req_read"}
StartsRequest(p) == pc[p] = "idle" /\ pc'[p] = "req_send"
NoCloseYet == \A s \in Sessions : closeCalls[s] = 0

\* C1: the sessions the manager has created and that are not yet closed are at
\* most one, in every reachable state under every interleaving.
C1_AtMostOneLiveSession == Cardinality({s \in Sessions : Live(s)}) <= 1

\* C2: ok is true if and only if the status code is in 200..299.
C2_OkIffIn200To299 ==
    last.op = "ok" => (last.flag <=> (200 <= last.num /\ last.num <= 299))

\* C3: after a close() that completed with nothing else in progress, the next
\* request() creates a session that did not exist before, is issued on it and
\* leaves the manager holding it; and while the manager is alive a request()
\* can always be started (up to the model's cap on sessions).
C3_RequestAfterCloseRecreates ==
    /\ [][\A p \in Procs :
            (Quiet /\ last.op = "close" /\ StartsRequest(p)) =>
                /\ session = None
                /\ session' \in Sessions
                /\ sstate[session'] = "absent"
                /\ sstate'[session'] = "open"
                /\ on'[p] = session'
                /\ created' = created + 1]_vars
    /\ [](\A p \in Procs :
            (teardown = "alive" /\ Idle(p) /\ (session # None \/ created < MaxSessions))
                => ENABLED RequestCall(p))

C3_Witness ==
    /\ ~overlapped
    /\ created = 2
    /\ session = 2
    /\ sstate[1] = "closed"
    /\ sstate[2] = "open"
    /\ \E p \in Procs : pc[p] = "req_send" /\ on[p] = session

\* C4: close() with no session changes nothing and raises nothing; a close() that
\* follows a completed close() does not call the transport's close; when no two
\* operations overlap every session is closed exactly once, and a completed
\* close() leaves the manager with no session.
C4_CloseIdempotent ==
    /\ [][\A c \in Coros :
            (CloseCall(c) /\ session = None) =>
                /\ UNCHANGED <<session, created, sstate, closeCalls>>
                /\ pc'[c] = Finished(c)
                /\ ~last'.raised]_vars
    /\ [][\A c \in Coros :
            (CloseCall(c) /\ Quiet /\ last.op = "close") =>
                /\ closeCalls' = closeCalls
                /\ session' = None]_vars
    /\ [](~overlapped =>
            \A s \in Sessions :
                /\ closeCalls[s] <= 1
                /\ sstate[s] = "closed" => closeCalls[s] = 1)
    /\ [](Quiet /\ last.op = "close" =>
            /\ session = None
            /\ ~overlapped => \A s \in 1..created :
                                  sstate[s] = "closed" /\ closeCalls[s] = 1)

C4_Witness ==
    /\ last.op = "close"
    /\ last.arg = "no session"
    /\ ~overlapped
    /\ session = None
    /\ created = 1
    /\ sstate[1] = "closed"
    /\ closeCalls[1] = 1

\* C5: while no close() has run, concurrent request()/get()/post() calls are all
\* issued on the one session the manager created.
C5_ConcurrentRequestsShareSession ==
    NoCloseYet =>
        /\ created <= 1
        /\ \A p \in Procs : InRequest(p) =>
               /\ created = 1
               /\ session = 1
               /\ on[p] = session
               /\ sstate[session] = "open"

C5_Witness ==
    /\ NoCloseYet
    /\ created = 1
    /\ \A p \in Procs : InRequest(p) /\ on[p] = 1

\* C6: a transport failure leaves request() as an error after exactly one
\* transport attempt, and changes neither the handle nor any session; so with
\* nothing else running the session is still open, and the next request() is
\* issued on it.
C6_TransportErrorPropagates ==
    /\ [][\A p \in Procs :
            RequestFail(p) =>
                /\ pc'[p] = "idle"
                /\ last'.op = "request"
                /\ last'.raised
                /\ last'.val = "TransportError"
                /\ last'.num = 1
                /\ UNCHANGED <<session, created, sstate, closeCalls>>]_vars
    /\ [](Quiet /\ ~overlapped /\ last.op = "request" /\ last.raised =>
            session \in Sessions /\ sstate[session] = "open")
    /\ [][\A p \in Procs :
            (StartsRequest(p) /\ Quiet /\ ~overlapped /\ last.op = "request" /\ last.raised) =>
                /\ on'[p] = session
                /\ UNCHANGED <<session, created, sstate>>]_vars

C6_Witness ==
    /\ last.op = "request"
    /\ last.raised
    /\ last.num = 1
    /\ ~overlapped
    /\ created = 1
    /\ session = 1
    /\ sstate[1] = "open"
    /\ \E p \in Procs : pc[p] = "req_send" /\ on[p] = 1 /\ attempts[p] = 1

\* C7: the handle is none at construction; it goes from none to a session only in
\* the step in which a request()/get()/post() starts, from a session to none only
\* in the step in which a close() resumes, and never from one session to another.
C7_TwoStateMachine ==
    /\ session = None
    /\ [][/\ (session = None /\ session' # None) =>
                \E p \in Procs : StartsRequest(p) /\ on'[p] = session'
          /\ (session # None /\ session' = None) =>
                \E c \in Coros : pc[c] = "close_wait" /\ pc'[c] = Finished(c)
          /\ (session # None /\ session' # None) => session' = session]_vars

C7_Witness ==
    /\ created = 2
    /\ session = 2
    /\ resp.made
    /\ last.op = "json"

\* C8: json() returns a value only when the top-level JSON value is a mapping.
C8_JsonReturnsOnlyMappings ==
    (last.op = "json" /\ ~last.raised) => last.val = "dict"

\* C9: __del__ raises nothing and leaves the handle and the sessions alone; with
\* no session it schedules nothing, with a session and no running loop it
\* schedules nothing and the session stays open, with a session and a running
\* loop it schedules one close() task, and when that task has run the session
\* it found is closed, by one call, and the handle is none.
C9_TeardownBestEffort ==
    /\ [][\A loop \in BOOLEAN :
            Del(loop) =>
                /\ UNCHANGED <<session, created, sstate, closeCalls>>
                /\ ~last'.raised
                /\ session = None => pc'[DelTask] = "none"
                /\ (session # None /\ ~loop) => pc'[DelTask] = "none"
                /\ (session # None /\ loop) => pc'[DelTask] = "scheduled"]_vars
    /\ [](teardown \in {"nothing", "skipped"} => pc[DelTask] = "none")
    /\ [](teardown = "skipped" => session \in Sessions /\ sstate[session] = "open")
    /\ [][CloseDone(DelTask) =>
            /\ on[DelTask] = session
            /\ closeCalls[session] = 1
            /\ sstate'[session] = "closed"
            /\ session' = None
            /\ pc'[DelTask] = "done"]_vars
    /\ [](pc[DelTask] = "done" => session = None)

C9_Witness ==
    /\ pc[DelTask] = "done"
    /\ teardown = "scheduled"
    /\ session = None
    /\ created = 1
    /\ sstate[1] = "closed"

\* C10: a request made while the manager holds a session creates no session and
\* leaves the handle on the same session; a session is created only by a request
\* made while the manager holds none.
C10_EnsureSessionIdempotent ==
    /\ [][\A p \in Procs :
            (RequestCall(p) /\ session # None) =>
                /\ UNCHANGED <<session, created, sstate>>
                /\ on'[p] = session]_vars
    /\ [][created' # created =>
            /\ session = None
            /\ created' = created + 1
            /\ session' = created'
            /\ \E p \in Procs : StartsRequest(p)]_vars

C10_Witness ==
    /\ ~overlapped
    /\ last.op = "request"
    /\ last.val = "HttpResponse"
    /\ created = 1
    /\ session = 1
    /\ \E p \in Procs : pc[p] = "req_send" /\ on[p] = 1

\* C11: request() returns the response whatever its body; plist() on it raises
\* TypeError whenever the decoded top-level value is not a mapping, returns the
\* decoded value when it is one, and passes on an error of the decoder.
C11_PlistTypeError ==
    /\ [][RequestRead(1, 200, resp'.content) =>
            /\ ~last'.raised
            /\ last'.val = "HttpResponse"
            /\ resp'.made]_vars
    /\ [](last.op = "plist" =>
            LET d == PlistLoads(IF StartsWithXml(last.bytes) THEN last.bytes
                                ELSE plist_header \o last.bytes)
            IN  /\ resp.made
                /\ resp.content = last.bytes
                /\ d.raised => (last.raised /\ last.val = d.err)
                /\ (~d.raised /\ d.value.kind # "dict") =>
                       (last.raised /\ last.val = "TypeError")
                /\ (~d.raised /\ d.value.kind = "dict") =>
                       (~last.raised /\ last.value = d.value))

C11_Witness ==
    /\ last.op = "plist"
    /\ last.bytes = <<XmlDecl, DocType, "<plist>", "<array/>", "</plist>">>
    /\ last.raised
    /\ last.val = "TypeError"
    /\ pc[1] = "idle"

\* C12: a body that does not begin with "<?xml" decodes as the fixed header
\* followed by the body does, decoded by decode_plist or by plistlib itself; a
\* body that begins with "<?xml" decodes as plistlib decodes its bytes as they are.
C12_HeaderPrepended ==
    last.op = "decode_plist" =>
        LET b == last.bytes
            r == IF last.raised THEN PlistRaised(last.val) ELSE PlistReturned(last.value)
        IN  /\ ~StartsWith(b, <<XmlDecl>>) /\ ~StartsWith(b, <<XmlStylesheet>>) =>
                /\ r = PlistLoads(plist_header \o b)
                /\ r = decode_plist(plist_header \o b)
            /\ (StartsWith(b, <<XmlDecl>>) \/ StartsWith(b, <<XmlStylesheet>>)) =>
                r = PlistLoads(b)

C12_Witness ==
    /\ last.op = "decode_plist"
    /\ last.bytes = <<"<plist>", "<dict/>", "</plist>">>
    /\ ~last.raised
    /\ last.value = Value("dict", <<>>)

\* C13: the handle is never reset to none while it refers to a session that has
\* not been closed; so when every started operation has finished and the last to
\* finish is a close(), every session the manager created is closed.
C13_CloseResetsOnlyItsOwnSession ==
    /\ [][(session # None /\ session' = None) => sstate'[session] = "closed"]_vars
    /\ [](Quiet /\ last.op = "close" => \A s \in 1..created : sstate[s] = "closed")

\* C14: no request() is issued on a session whose close has already begun.
C14_NoRequestOnClosingSession ==
    [][\A p \in Procs : StartsRequest(p) => sstate'[on'[p]] = "open"]_vars

====
